---- MODULE Spec2Model ----
(***************************************************************************)
(* Pipeline orchestration engine of the App component (src/vite.config.ts, *)
(* lines 68-634): the state kept by the component, the event handlers and  *)
(* the asynchronous handleSubmit, cut at its await points.  Every          *)
(* synchronous segment of a handler is one action: React applies the state *)
(* updates queued by a segment in order, before the next event or          *)
(* continuation runs.                                                      *)
(***************************************************************************)
EXTENDS Integers, Sequences, FiniteSets, TLC

VARIABLES
    error,              \* useState<string | null>            (line 69)
    analysisHistory,    \* useState<HistoricalAnalysis[]>     (line 70)
    selectedAnalysisId, \* useState<string | null>            (line 71)
    appState,           \* useState<AppState>                 (line 72)
    pipelineStages,     \* useState<PipelineStage[]>          (line 77)
    activityLog,        \* useState<ActivityLogEntry[]>       (line 80)
    partialResults,     \* useState<PartialResults>           (line 81)
    aiConfig,           \* useState<AiConfig | null>          (line 87)
    isCancelling,       \* useState(false)                    (line 88)
    abortControllerRef, \* useRef<AbortController | null>     (line 90)
    aborted,            \* signal.aborted of the AbortController made by each run
    storedHistory,      \* localStorage[HISTORY_STORAGE_KEY]
    quotaExceeded,      \* localStorage.setItem throws: the storage is full
    now,                \* Date.now()
    runs,               \* the calls of handleSubmit: position, arguments, closure, in
                        \* args what the collaborator call awaited was given, and in
                        \* frames the requestAnimationFrame callbacks waiting to run
    cancelCalls,        \* history variable: handleCancelAnalysis calls made back to back
    written             \* history variable: the fields of partialResults the last step set

vars == <<error, analysisHistory, selectedAnalysisId, appState, pipelineStages,
          activityLog, partialResults, aiConfig, isCancelling, abortControllerRef,
          aborted, storedHistory, quotaExceeded, now, runs, cancelCalls, written>>

-----------------------------------------------------------------------------
(* Bounds of the model *)

\* handleSubmit calls that pass validation, in Spec, SpecApi and SpecSeq
MaxRuns == 2
\* handleSubmit calls that pass validation, in SpecHist
SeqRuns == 11
\* calls in SpecRestart
RestartRuns == 2
\* calls in SpecLive
LiveRuns == 2
\* calls in SpecUser, SpecCrawl, SpecRank and SpecProgress
UserRuns == 1
\* last value of the clock
MaxTime == 1
\* calls in SpecCall
CallRuns == 1
\* calls in SpecStore
StoreRuns == 2
\* progress messages in the log at a time
MaxMessages == 2
\* animation frames of one call waiting at a time
MaxFrames == 2
\* largest count and total of a crawl progress signal
MaxTotal == 2
\* calls of handleCancelAnalysis made back to back
MaxCancelCalls == 2

(* Program constants *)

\* [newAnalysis, ...analysisHistory].slice(0, 10)
HISTORY_LIMIT == 10
\* const MAX_URLS_FOR_ANALYSIS = 100
MAX_URLS_FOR_ANALYSIS == 100

\* null of selectedAnalysisId
NoId == <<>>
\* null of error and of aiConfig
Null == "null"
\* abortControllerRef.current === null
NoController == 0

-----------------------------------------------------------------------------
(* src/types/pipeline.ts *)

PIPELINE_STAGE_DEFINITIONS ==
    << [id |-> "crawl",      name |-> "Sitemap Discovery"],
       [id |-> "rank",       name |-> "URL Prioritization"],
       [id |-> "competitor", name |-> "Competitor Intelligence"],
       [id |-> "technical",  name |-> "Technical Health Scan"],
       [id |-> "content",    name |-> "Content Analysis"],
       [id |-> "actionplan", name |-> "Action Plan Generation"],
       [id |-> "summary",    name |-> "Executive Synthesis"] >>

StageIds == {PIPELINE_STAGE_DEFINITIONS[i].id : i \in DOMAIN PIPELINE_STAGE_DEFINITIONS}

\* { ...s, ...updates }
Spread(s, updates) ==
    [k \in (DOMAIN s) \cup (DOMAIN updates) |->
        IF k \in DOMAIN updates THEN updates[k] ELSE s[k]]

\* PIPELINE_STAGE_DEFINITIONS.map(s => ({ ...s, status: 'pending', progress: 0 }))
InitialStages ==
    [i \in DOMAIN PIPELINE_STAGE_DEFINITIONS |->
        Spread(PIPELINE_STAGE_DEFINITIONS[i], [status |-> "pending", progress |-> 0])]

\* {} of PartialResults
EmptyResults == [k \in {} |-> 0]

-----------------------------------------------------------------------------
(* The state store: updateStage, addLog, resetPipeline *)

\* stage?: string left out
Undefined == "undefined"

\* an updateStage that replaces the stage by the updates
updateStageReplaces(stages, stageId, updates) ==
    [i \in DOMAIN stages |-> IF stages[i].id = stageId THEN updates ELSE stages[i]]

\* setPipelineStages(prev => prev.map(s => s.id === stageId ? { ...s, ...updates } : s))
updateStage(stages, stageId, updates) ==
    [i \in DOMAIN stages |->
        IF stages[i].id = stageId THEN Spread(stages[i], updates) ELSE stages[i]]

\* an addLog that puts the newest entry first
addLogNewestFirst(log, message, type, stage) ==
    <<[timestamp |-> now, message |-> message, type |-> type, stage |-> stage]>> \o log

\* setActivityLog(prev => [...prev, { timestamp: Date.now(), message, type, stage }])
addLog(log, message, type, stage) ==
    Append(log, [timestamp |-> now, message |-> message, type |-> type, stage |-> stage])

\* the store: the three pieces of state resetPipeline sets
Store(stages, log, results) ==
    [pipelineStages |-> stages, activityLog |-> log, partialResults |-> results]

\* a resetPipeline that leaves the activity log as it is
resetPipelineKeepsLog(store) ==
    Store(InitialStages, store.activityLog, EmptyResults)

\* a resetPipeline that leaves the stages as they are
resetPipelineKeepsStages(store) ==
    Store(store.pipelineStages, <<>>, EmptyResults)

\* resetPipeline (lines 114-119): the store after it, given the store before
resetPipeline(store) ==
    Store(InitialStages, <<>>, EmptyResults)

\* a marking that takes every stage short of complete to error
markUnfinishedAsError(stages) ==
    [i \in DOMAIN stages |->
        IF stages[i].status # "complete"
        THEN Spread(stages[i], [status |-> "error"])
        ELSE stages[i]]

\* setPipelineStages(prev => prev.map(s => s.status === 'running' ? { ...s, status: 'error' } : s))
markRunningAsError(stages) ==
    [i \in DOMAIN stages |->
        IF stages[i].status = "running"
        THEN Spread(stages[i], [status |-> "error"])
        ELSE stages[i]]

\* the duration the StageCard of AnalysisPipelineView shows for a stage that is
\* not running: endTime - startTime when complete with both set, otherwise the
\* 0 its state starts with
elapsedTime(stage) ==
    IF /\ stage.status = "complete"
       /\ "startTime" \in DOMAIN stage
       /\ "endTime" \in DOMAIN stage
    THEN stage.endTime - stage.startTime
    ELSE 0

\* the stage with the given id
Stage(stages, stageId) ==
    stages[CHOOSE i \in DOMAIN stages : stages[i].id = stageId]

-----------------------------------------------------------------------------
(* Inputs *)

\* a parser that takes a URL without a scheme
ParsableUrlsAndBare ==
    {"https://example.com/sitemap.xml", "https://example.com", "example.com/sitemap.xml"}

\* strings new URL(...) accepts
ParsableUrls == {"https://example.com/sitemap.xml", "https://example.com"}

\* WizardSubmitData: the sitemap URL typed in and the site URL
SubmitInputs ==
    { [sitemapUrl |-> "", url |-> "https://example.com"],
      [sitemapUrl |-> "example.com/sitemap.xml", url |-> "https://example.com"],
      [sitemapUrl |-> "https://example.com/sitemap.xml", url |-> "https://example.com"] }

\* and the input whose two URLs are the same
AllSubmitInputs ==
    SubmitInputs \cup
    { [sitemapUrl |-> "https://example.com/sitemap.xml", url |-> "https://example.com/sitemap.xml"] }

\* CrawlProgress signals: two numbers, count and total, total 0 while it is not
\* known; the callback tests neither against the other
ProgressSignals == [count : 0 .. MaxTotal, total : 0 .. MaxTotal]

\* progress.total > 0 ? (progress.count / progress.total) * 100 : 0 (line 241); the
\* quotient is exact for totals 1, 2, 4, 5, 10, 20, 25, 50 and 100
progressPercent(progress) ==
    IF progress.total > 0 THEN (progress.count * 100) \div progress.total ELSE 0

\* allPageUrls.size of a crawl that resolves
CrawlSizes == {0, 3}

\* allPageUrls.size of crawls about the bound of the analysis input set
RankSizes == {1, MAX_URLS_FOR_ANALYSIS - 1, MAX_URLS_FOR_ANALYSIS, MAX_URLS_FOR_ANALYSIS + 1}

\* what a collaborator rejects with: an Error, or a value that is no Error
Errors == { [isError |-> TRUE, message |-> "Request failed"] }
Rejections == Errors \cup { [isError |-> FALSE, message |-> ""] }

\* new Error('Crawl complete, but no URLs were found. ...') (line 257)
NoUrlsFound ==
    [isError |-> TRUE,
     message |-> "Crawl complete, but no URLs were found. Your sitemap might be empty or in a format that could not be parsed."]

\* an errorMessage that drops the message of the Error
errorMessageGeneric(e) == "An unexpected error occurred."

\* e instanceof Error ? e.message : 'An unexpected error occurred.'
errorMessage(e) ==
    IF e.isError THEN e.message ELSE "An unexpected error occurred."

\* new Date().toISOString()
toISOString(t) == <<"T", t>>

\* a record read from localStorage at mount, written by an earlier session
StoredRecord ==
    [id |-> toISOString(-1), sitemapUrl |-> "https://example.com",
     sitewideAnalysis |-> 0, analysis |-> 0,
     actionPlan |-> [by |-> 0, completed |-> FALSE], executiveSummary |-> 0]

-----------------------------------------------------------------------------
(* The calls of handleSubmit *)

\* a call that has not been made
NotCalled ==
    [pc |-> "none", data |-> [sitemapUrl |-> "", url |-> ""], analysisHistory |-> <<>>,
     aiConfig |-> Null, isCancelling |-> FALSE, urls |-> 0,
     sitewide |-> "none", seo |-> "none", args |-> <<>>, frames |-> <<>>]

\* a call that has returned: its frame is gone; the fan-out promises may be pending
\* and animation frames it requested may be waiting
Returned(run, how) ==
    [NotCalled EXCEPT !.pc = how, !.sitewide = run.sitewide, !.seo = run.seo,
                      !.frames = run.frames]

AwaitPoints == {"crawl", "cacheGet", "fanout", "cacheSet", "plan", "summary",
                "hitPlan", "hitSummary"}

InFlight(r) == runs[r].pc \in AwaitPoints

\* the controller whose signal is among the arguments of the collaborator call
\* that call r awaits: crawlSitemap (line 238), getAnalysis (264), createActionPlan
\* (282, 392), generateExecutiveSummary (294, 408), the two analyzers (340-368) and
\* setAnalysis (383) are passed no signal
signalHanded(r) == NoController

\* the call to make next
NextRun(r) ==
    /\ runs[r].pc = "none"
    /\ \A q \in 1 .. (r - 1) : runs[q].pc # "none"

-----------------------------------------------------------------------------
(* Construction and the mount effect (lines 69-90, 140-163) *)

\* what localStorage can hold at mount: an AI configuration or none, a history or none
StoredConfigs == {Null, "config"}
StoredHistories == {<<>>, <<StoredRecord>>}

Mount(calls, configs, histories) ==
    /\ \E config \in configs, stored \in histories :
        /\ aiConfig = config
        /\ analysisHistory = stored
        /\ storedHistory = stored
        /\ selectedAnalysisId =
              IF Len(stored) > 0 /\ config # Null THEN stored[1].id ELSE NoId
        /\ appState = IF config = Null THEN "configure_ai"
                      ELSE IF Len(stored) > 0 THEN "results" ELSE "idle"
    /\ error = Null
    /\ pipelineStages = InitialStages
    /\ activityLog = <<>>
    /\ partialResults = EmptyResults
    /\ isCancelling = FALSE
    /\ abortControllerRef = NoController
    /\ aborted = [r \in 1 .. calls |-> FALSE]
    /\ now = 0
    /\ runs = [r \in 1 .. calls |-> NotCalled]
    /\ cancelCalls = 0
    /\ written = {}
    /\ quotaExceeded = FALSE

\* try { localStorage.setItem(key, JSON.stringify(value)) } catch (e) { console.warn(...) }:
\* what the storage holds afterwards
setItem(stored, value) == IF quotaExceeded THEN stored ELSE value

\* the storage fills up, or room is made in it
StorageChanges ==
    /\ quotaExceeded' = ~ quotaExceeded
    /\ cancelCalls' = 0
    /\ written' = {}
    /\ UNCHANGED <<error, analysisHistory, selectedAnalysisId, appState, pipelineStages,
                   activityLog, partialResults, aiConfig, isCancelling,
                   abortControllerRef, aborted, storedHistory, now, runs>>

\* the clock advances
Tick ==
    /\ now < MaxTime
    /\ now' = now + 1
    /\ cancelCalls' = 0
    /\ UNCHANGED quotaExceeded
    /\ written' = {}
    /\ UNCHANGED <<error, analysisHistory, selectedAnalysisId, appState, pipelineStages,
                   activityLog, partialResults, aiConfig, isCancelling,
                   abortControllerRef, aborted, storedHistory, runs>>

-----------------------------------------------------------------------------
(* Event handlers *)

\* analysisToDisplay (lines 94-97), as the index of the record found; 0 for null
analysisToDisplay ==
    IF selectedAnalysisId = NoId
       \/ ~ \E i \in DOMAIN analysisHistory : analysisHistory[i].id = selectedAnalysisId
    THEN 0
    ELSE CHOOSE i \in DOMAIN analysisHistory :
            /\ analysisHistory[i].id = selectedAnalysisId
            /\ \A j \in 1 .. (i - 1) : analysisHistory[j].id # selectedAnalysisId

\* handleNewAnalysis (lines 165-170)
handleNewAnalysis ==
    /\ selectedAnalysisId' = NoId
    /\ appState' = IF aiConfig # Null THEN "idle" ELSE "configure_ai"
    /\ error' = Null
    /\ LET reset == resetPipeline(Store(pipelineStages, activityLog, partialResults))
       IN  /\ pipelineStages' = reset.pipelineStages
           /\ activityLog' = reset.activityLog
           /\ partialResults' = reset.partialResults
    /\ cancelCalls' = 0
    /\ UNCHANGED quotaExceeded
    /\ written' = {}
    /\ UNCHANGED <<analysisHistory, aiConfig, isCancelling, abortControllerRef, aborted,
                   storedHistory, now, runs>>

\* the "Start New Analysis" buttons: the header's in results, the error view's in error
NewAnalysisClick ==
    /\ appState \in {"results", "error"}
    /\ handleNewAnalysis

\* handleAiConfigChange (lines 172-176), reached from the configure_ai view
handleAiConfigChange ==
    /\ appState = "configure_ai"
    /\ aiConfig' = "config"
    /\ appState' = "idle"
    /\ cancelCalls' = 0
    /\ UNCHANGED quotaExceeded
    /\ written' = {}
    /\ UNCHANGED <<error, analysisHistory, selectedAnalysisId, pipelineStages, activityLog,
                   partialResults, isCancelling, abortControllerRef, aborted,
                   storedHistory, now, runs>>

\* handleAiSettingsChange (lines 178-182), reached from the header
handleAiSettingsChange ==
    /\ aiConfig # Null
    /\ aiConfig' = Null
    /\ appState' = "configure_ai"
    /\ cancelCalls' = 0
    /\ UNCHANGED quotaExceeded
    /\ written' = {}
    /\ UNCHANGED <<error, analysisHistory, selectedAnalysisId, pipelineStages, activityLog,
                   partialResults, isCancelling, abortControllerRef, aborted,
                   storedHistory, now, runs>>

\* handleCancelAnalysis (lines 184-196): the updates are applied in the order queued
handleCancelAnalysis ==
    /\ cancelCalls < MaxCancelCalls
    /\ cancelCalls' = cancelCalls + 1
    /\ UNCHANGED quotaExceeded
    /\ written' = {}
    /\ isCancelling' = FALSE
    /\ aborted' = IF abortControllerRef # NoController
                  THEN [aborted EXCEPT ![abortControllerRef] = TRUE]
                  ELSE aborted
    /\ appState' = "idle"
    /\ LET logged == addLog(activityLog, "Analysis cancelled by user", "warning", Undefined)
           marked == markRunningAsError(pipelineStages)
           reset == resetPipeline(Store(marked, logged, partialResults))
       IN  /\ pipelineStages' = reset.pipelineStages
           /\ activityLog' = reset.activityLog
           /\ partialResults' = reset.partialResults
    /\ UNCHANGED <<error, analysisHistory, selectedAnalysisId, aiConfig,
                   abortControllerRef, storedHistory, now, runs>>

\* the "Cancel Analysis" buttons, rendered in the loading view only (lines 470-504)
CancelClick ==
    /\ appState = "loading"
    /\ handleCancelAnalysis

\* HistoryPanel onSelect (lines 596-605)
onSelect(id) ==
    /\ \E i \in DOMAIN analysisHistory : analysisHistory[i].id = id
    /\ IF aiConfig # Null
       THEN /\ selectedAnalysisId' = id
            /\ appState' = "results"
            /\ error' = Null
       ELSE /\ appState' = "configure_ai"
            /\ UNCHANGED <<selectedAnalysisId, error>>
    /\ cancelCalls' = 0
    /\ UNCHANGED quotaExceeded
    /\ written' = {}
    /\ UNCHANGED <<analysisHistory, pipelineStages, activityLog, partialResults, aiConfig,
                   isCancelling, abortControllerRef, aborted, storedHistory, now, runs>>

\* HistoryPanel onClear (lines 606-613)
onClear ==
    /\ analysisHistory' = <<>>
    /\ storedHistory' = <<>>
    /\ selectedAnalysisId' = NoId
    /\ appState' = IF aiConfig # Null THEN "idle" ELSE "configure_ai"
    /\ error' = Null
    /\ LET reset == resetPipeline(Store(pipelineStages, activityLog, partialResults))
       IN  /\ pipelineStages' = reset.pipelineStages
           /\ activityLog' = reset.activityLog
           /\ partialResults' = reset.partialResults
    /\ cancelCalls' = 0
    /\ UNCHANGED quotaExceeded
    /\ written' = {}
    /\ UNCHANGED <<aiConfig, isCancelling, abortControllerRef, aborted, now, runs>>

\* an update that merges the fields into every record
updateEveryAnalysisInHistory(history, id, updatedAnalysis) ==
    [i \in DOMAIN history |-> Spread(history[i], updatedAnalysis)]

\* updateAnalysisInHistory (lines 121-127)
updateAnalysisInHistory(history, id, updatedAnalysis) ==
    [i \in DOMAIN history |->
        IF history[i].id = id THEN Spread(history[i], updatedAnalysis) ELSE history[i]]

\* handleToggleTaskComplete (lines 129-138), reached from the dashboard of the results view
handleToggleTaskComplete ==
    /\ appState = "results"
    /\ aiConfig # Null
    /\ analysisToDisplay # 0
    /\ LET shown == analysisHistory[analysisToDisplay]
           newActionPlan == [shown.actionPlan EXCEPT !.completed = ~ @]
           updated == updateAnalysisInHistory(analysisHistory, shown.id,
                                              [actionPlan |-> newActionPlan])
       IN  /\ analysisHistory' = updated
           /\ storedHistory' = setItem(storedHistory, updated)
    /\ cancelCalls' = 0
    /\ UNCHANGED quotaExceeded
    /\ written' = {}
    /\ UNCHANGED <<error, selectedAnalysisId, appState, pipelineStages, activityLog,
                   partialResults, aiConfig, isCancelling, abortControllerRef, aborted,
                   now, runs>>

-----------------------------------------------------------------------------
(* handleSubmit (lines 198-448), one action per synchronous segment *)

\* a catch block that leaves the stages as the try block left them
catchWithoutMarking(calls, r, e, store) ==
    /\ partialResults' = store.partialResults
    /\ pipelineStages' = store.pipelineStages
    /\ IF calls[r].isCancelling
       THEN /\ activityLog' = store.activityLog
            /\ UNCHANGED <<error, appState>>
            /\ runs' = [calls EXCEPT ![r] = Returned(@, "returned")]
       ELSE /\ error' = errorMessage(e)
            /\ activityLog' = addLog(store.activityLog,
                                     "Analysis failed: " \o errorMessage(e), "error", Undefined)
            /\ appState' = "error"
            /\ runs' = [calls EXCEPT ![r] = Returned(@, "failed")]

\* the catch block (lines 437-447), after the updates the try block queued
catch(calls, r, e, store) ==
    /\ partialResults' = store.partialResults
    /\ IF calls[r].isCancelling
       THEN /\ pipelineStages' = store.pipelineStages
            /\ activityLog' = store.activityLog
            /\ UNCHANGED <<error, appState>>
            /\ runs' = [calls EXCEPT ![r] = Returned(@, "returned")]
       ELSE /\ error' = errorMessage(e)
            /\ activityLog' = addLog(store.activityLog,
                                     "Analysis failed: " \o errorMessage(e), "error", Undefined)
            /\ pipelineStages' = markRunningAsError(store.pipelineStages)
            /\ appState' = "error"
            /\ runs' = [calls EXCEPT ![r] = Returned(@, "failed")]

\* lines 198-238: validation, run start, the crawl call
handleSubmit(r, data) ==
    /\ NextRun(r)
    /\ cancelCalls' = 0
    /\ UNCHANGED quotaExceeded
    /\ written' = {}
    /\ IF data.sitemapUrl = ""
       THEN /\ error' = "Please enter your sitemap.xml URL."
            /\ appState' = "error"
            /\ UNCHANGED <<analysisHistory, selectedAnalysisId, pipelineStages, activityLog,
                           partialResults, aiConfig, isCancelling, abortControllerRef,
                           aborted, storedHistory, now, runs>>
       ELSE IF aiConfig = Null
       THEN /\ error' = "AI Provider is not configured."
            /\ appState' = "configure_ai"
            /\ UNCHANGED <<analysisHistory, selectedAnalysisId, pipelineStages, activityLog,
                           partialResults, aiConfig, isCancelling, abortControllerRef,
                           aborted, storedHistory, now, runs>>
       ELSE IF data.sitemapUrl \notin ParsableUrls
       THEN /\ error' = "Please enter a valid sitemap URL (e.g., https://example.com/sitemap.xml)."
            /\ appState' = "error"
            /\ UNCHANGED <<analysisHistory, selectedAnalysisId, pipelineStages, activityLog,
                           partialResults, aiConfig, isCancelling, abortControllerRef,
                           aborted, storedHistory, now, runs>>
       ELSE /\ abortControllerRef' = r
            /\ aborted' = [aborted EXCEPT ![r] = FALSE]
            /\ appState' = "loading"
            /\ error' = Null
            /\ selectedAnalysisId' = NoId
            /\ LET reset == resetPipeline(Store(pipelineStages, activityLog, partialResults))
               IN  /\ activityLog' = addLog(reset.activityLog,
                                            "Starting sitemap discovery...", "info", "crawl")
                   /\ pipelineStages' =
                        updateStage(reset.pipelineStages, "crawl",
                                    [status |-> "running", startTime |-> now,
                                     currentTask |-> "Initializing parallel crawler..."])
                   /\ partialResults' = reset.partialResults
            /\ runs' = [runs EXCEPT ![r] =
                          [pc |-> "crawl", data |-> data,
                           analysisHistory |-> analysisHistory,
                           aiConfig |-> aiConfig, isCancelling |-> isCancelling,
                           urls |-> 0, sitewide |-> "none", seo |-> "none",
                           args |-> <<data.sitemapUrl>>, frames |-> <<>>]]
            /\ UNCHANGED <<analysisHistory, aiConfig, isCancelling, storedHistory, now>>

\* onSubmit of the GuidedAnalysisWizard, rendered in the idle view (lines 536-547)
SubmitClick(r, data) ==
    /\ appState = "idle"
    /\ handleSubmit(r, data)

\* crawlSitemap reports progress: the callback of lines 238-249 requests an
\* animation frame
crawlSitemapProgress(r, progress) ==
    /\ runs[r].pc = "crawl"
    /\ Len(runs[r].frames) < MaxFrames
    /\ runs' = [runs EXCEPT ![r].frames = Append(@, progress)]
    /\ cancelCalls' = 0
    /\ written' = {}
    /\ UNCHANGED <<error, analysisHistory, selectedAnalysisId, appState, pipelineStages,
                   activityLog, partialResults, aiConfig, isCancelling, abortControllerRef,
                   aborted, storedHistory, quotaExceeded, now>>

\* the browser runs the oldest animation frame a call requested (lines 240-247)
animationFrame(r) ==
    /\ runs[r].frames # <<>>
    /\ LET progress == Head(runs[r].frames)
       IN  pipelineStages' =
              updateStage(pipelineStages, "crawl",
                          [progress |-> progressPercent(progress),
                           itemsProcessed |-> progress.count,
                           totalItems |-> progress.total,
                           currentTask |-> "Processing sitemap..."])
    /\ runs' = [runs EXCEPT ![r].frames = Tail(@)]
    /\ cancelCalls' = 0
    /\ written' = {}
    /\ UNCHANGED <<error, analysisHistory, selectedAnalysisId, appState, activityLog,
                   partialResults, aiConfig, isCancelling, abortControllerRef, aborted,
                   storedHistory, quotaExceeded, now>>

\* crawlSitemap resolves with size URLs: lines 251-264, up to the cache read
crawlSitemapResolves(r, size) ==
    /\ runs[r].pc = "crawl"
    /\ cancelCalls' = 0
    /\ UNCHANGED quotaExceeded
    /\ written' = {"urlsDiscovered"}
    /\ LET stages == updateStage(pipelineStages, "crawl",
                        [status |-> "complete", progress |-> 100, endTime |-> now])
           log == addLog(activityLog, "Discovered " \o ToString(size) \o " URLs",
                         "success", "crawl")
           results == Spread(partialResults, [urlsDiscovered |-> size])
       IN  IF size = 0
           THEN catch(runs, r, NoUrlsFound, Store(stages, log, results))
           ELSE /\ pipelineStages' = stages
                /\ activityLog' = addLog(log, "Checking for cached analysis...", "info", Undefined)
                /\ partialResults' = results
                /\ runs' = [runs EXCEPT ![r].pc = "cacheGet", ![r].urls = size,
                                        ![r].args = <<runs[r].data.url, size>>]
                /\ UNCHANGED <<error, appState>>
    /\ UNCHANGED <<analysisHistory, selectedAnalysisId, aiConfig, isCancelling,
                   abortControllerRef, aborted, storedHistory, now>>

\* the result of a collaborator call made by run r; 0 names what the cache held
Fresh(r) == r
Cached == 0

\* a slice that keeps every element
SliceKeepsAll(seq, n) == seq

\* array.slice(0, n)
Slice(seq, n) == SubSeq(seq, 1, IF Len(seq) < n THEN Len(seq) ELSE n)

\* Array.from(allPageUrls) (line 255) of a crawl result of size URLs, a URL named
\* by its place in the result
urlsFromSitemap(size) == [i \in 1 .. size |-> i]

\* rankUrls of utils/seoScoring: the URLs it is given, ordered best-first; here the
\* URL found last is the best
rankUrls(urls) == [i \in 1 .. Len(urls) |-> urls[Len(urls) + 1 - i]]

\* rankedUrls.slice(0, MAX_URLS_FOR_ANALYSIS) (lines 327-328)
inputUrls(size) == Slice(rankUrls(urlsFromSitemap(size)), MAX_URLS_FOR_ANALYSIS)

\* inputUrls.length
inputUrlsLength(size) == Len(inputUrls(size))

\* a short-circuit that forgets content
completeSkippedStagesButContent(stages) ==
    LET done == [status |-> "complete", progress |-> 100, endTime |-> now]
    IN  updateStage(updateStage(updateStage(stages, "rank", done), "competitor", done),
                    "technical", done)

\* ['rank', 'competitor', 'technical', 'content'].forEach(stageId => updateStage(stageId,
\* { status: 'complete', progress: 100, endTime: Date.now() })) (lines 269-271)
completeSkippedStages(stages) ==
    LET done == [status |-> "complete", progress |-> 100, endTime |-> now]
    IN  updateStage(updateStage(updateStage(updateStage(
            stages, "rank", done), "competitor", done), "technical", done), "content", done)

\* cacheService.getAnalysis resolves: lines 266-282 on a hit, lines 322-368 on a miss
getAnalysisResolves(r, hit) ==
    /\ runs[r].pc = "cacheGet"
    /\ cancelCalls' = 0
    /\ UNCHANGED quotaExceeded
    /\ written' = IF hit THEN {"urlsDiscovered", "sitewideAnalysis", "seoAnalysis"}
                      ELSE {"urlsAnalyzed"}
    /\ IF hit
       THEN LET log1 == addLog(activityLog, "Cache hit! Using cached analysis...",
                               "success", Undefined)
                stages1 == completeSkippedStages(pipelineStages)
                log2 == addLog(log1, "Generating fresh action plan from cache...",
                               "ai", "actionplan")
            IN  /\ partialResults' = [urlsDiscovered |-> runs[r].urls,
                                      sitewideAnalysis |-> Cached, seoAnalysis |-> Cached]
                /\ activityLog' = log2
                /\ pipelineStages' =
                      updateStage(stages1, "actionplan",
                                  [status |-> "running", startTime |-> now,
                                   currentTask |-> "Creating implementation roadmap..."])
                /\ runs' = [runs EXCEPT ![r].pc = "hitPlan",
                                        ![r].args = <<Cached, Cached>>]
       ELSE LET log1 == addLog(activityLog, "No valid cache found, running full analysis...",
                               "info", Undefined)
                log2 == addLog(log1, "Prioritizing URLs by SEO value...", "info", "rank")
                stages1 == updateStage(pipelineStages, "rank",
                               [status |-> "running", startTime |-> now,
                                currentTask |-> "Scoring URL importance..."])
                stages2 == updateStage(stages1, "rank",
                               [status |-> "complete", progress |-> 100, endTime |-> now])
                log3 == addLog(log2, "Ranked " \o ToString(runs[r].urls)
                                     \o " URLs, analyzing top "
                                     \o ToString(inputUrlsLength(runs[r].urls)),
                               "success", "rank")
                log4 == addLog(log3, "Starting parallel AI analysis engines...",
                               "ai", Undefined)
                stages3 == updateStage(stages2, "competitor",
                               [status |-> "running", startTime |-> now,
                                currentTask |-> "Analyzing competitor sitemaps..."])
                stages4 == updateStage(stages3, "technical",
                               [status |-> "running", startTime |-> now,
                                currentTask |-> "Auditing technical health..."])
                stages5 == updateStage(stages4, "content",
                               [status |-> "running", startTime |-> now,
                                currentTask |-> "Evaluating content quality..."])
            IN  /\ partialResults' =
                      Spread(partialResults, [urlsAnalyzed |-> inputUrlsLength(runs[r].urls)])
                /\ activityLog' = log4
                /\ pipelineStages' = stages5
                /\ runs' = [runs EXCEPT ![r].pc = "fanout",
                                        ![r].sitewide = "pending", ![r].seo = "pending",
                                        ![r].args = <<inputUrls(runs[r].urls),
                                                      inputUrls(runs[r].urls)>>]
    /\ UNCHANGED <<error, analysisHistory, selectedAnalysisId, appState, aiConfig,
                   isCancelling, abortControllerRef, aborted, storedHistory, now>>

\* a join that leaves technical running
fanoutJoinedLeavesTechnical(r) ==
    LET done == [status |-> "complete", progress |-> 100, endTime |-> now]
        stages == updateStage(updateStage(pipelineStages, "competitor", done), "content", done)
        log1 == addLog(activityLog, "Content analysis complete", "success", "content")
        log2 == addLog(log1, "Caching analysis for future use...", "info", Undefined)
    IN  /\ pipelineStages' = stages
        /\ activityLog' = log2
        /\ partialResults' = Spread(partialResults,
                                [sitewideAnalysis |-> Fresh(r), seoAnalysis |-> Fresh(r)])
        /\ UNCHANGED <<error, appState>>

\* lines 370-383: Promise.all has resolved, up to the cache write
fanoutJoined(r) ==
    LET done == [status |-> "complete", progress |-> 100, endTime |-> now]
        stages == updateStage(updateStage(updateStage(
                      pipelineStages, "competitor", done), "technical", done), "content", done)
        log1 == addLog(activityLog, "Sitewide audit complete", "success", "technical")
        log2 == addLog(log1, "Content analysis complete", "success", "content")
        log3 == addLog(log2, "Caching analysis for future use...", "info", Undefined)
    IN  /\ pipelineStages' = stages
        /\ activityLog' = log3
        /\ partialResults' = Spread(partialResults,
                                [sitewideAnalysis |-> Fresh(r), seoAnalysis |-> Fresh(r)])
        /\ UNCHANGED <<error, appState>>

\* progress messages of the AI collaborators
ProgressMessages == {"Competitor gaps", "Competition", "Technical audit"}

\* the characters of a progress message
chars(message) ==
    CASE message = "Competitor gaps" ->
             <<"C", "o", "m", "p", "e", "t", "i", "t", "o", "r", " ", "g", "a", "p", "s">>
      [] message = "Competition" ->
             <<"C", "o", "m", "p", "e", "t", "i", "t", "i", "o", "n">>
      [] message = "Technical audit" ->
             <<"T", "e", "c", "h", "n", "i", "c", "a", "l", " ", "a", "u", "d", "i", "t">>

UpperCase ==
    <<"A", "B", "C", "D", "E", "F", "G", "H", "I", "J", "K", "L", "M", "N", "O", "P", "Q", "R", "S", "T", "U", "V", "W", "X", "Y", "Z">>
LowerCase ==
    <<"a", "b", "c", "d", "e", "f", "g", "h", "i", "j", "k", "l", "m", "n", "o", "p", "q", "r", "s", "t", "u", "v", "w", "x", "y", "z">>

\* a toLowerCase that changes nothing
toLowerCaseKeepsCase(cs) == cs

\* String.prototype.toLowerCase, on the characters of a string
toLowerCase(cs) ==
    [i \in DOMAIN cs |->
        IF \E k \in DOMAIN UpperCase : UpperCase[k] = cs[i]
        THEN LowerCase[CHOOSE k \in DOMAIN UpperCase : UpperCase[k] = cs[i]]
        ELSE cs[i]]

\* String.prototype.includes, on the characters of two strings
includes(cs, sub) ==
    \E i \in 0 .. (Len(cs) - Len(sub)) : SubSeq(cs, i + 1, i + Len(sub)) = sub

\* the stage a message of generateSitewideAudit goes to (lines 347-353)
sitewideStage(message) ==
    IF includes(toLowerCase(chars(message)), <<"c", "o", "m", "p", "e", "t", "i", "t", "o", "r">>)
    THEN "competitor" ELSE "technical"

\* the progress messages in the log
messagesLogged ==
    Cardinality({i \in DOMAIN activityLog : activityLog[i].message \in ProgressMessages})

\* a progress callback of an AI collaborator (lines 283-284, 348-353, 364-365 and
\* 393-394): updateStage(stageId, { currentTask: msg }); addLog(msg, 'ai', stageId)
progressCallback(stageId, message) ==
    /\ messagesLogged < MaxMessages
    /\ pipelineStages' = updateStage(pipelineStages, stageId, [currentTask |-> message])
    /\ activityLog' = addLog(activityLog, message, "ai", stageId)
    /\ cancelCalls' = 0
    /\ written' = {}
    /\ UNCHANGED <<error, analysisHistory, selectedAnalysisId, appState, partialResults,
                   aiConfig, isCancelling, abortControllerRef, aborted, storedHistory,
                   quotaExceeded, now, runs>>

\* generateSitewideAudit reports progress (lines 347-355)
sitewideAuditProgress(r, message) ==
    /\ runs[r].sitewide = "pending"
    /\ progressCallback(sitewideStage(message), message)

\* generateSeoAnalysis reports progress (lines 363-366)
seoAnalysisProgress(r, message) ==
    /\ runs[r].seo = "pending"
    /\ progressCallback("content", message)

\* createActionPlan reports progress (lines 282-285 and 392-395)
createActionPlanProgress(r, message) ==
    /\ runs[r].pc \in {"plan", "hitPlan"}
    /\ progressCallback("actionplan", message)

\* the other call of the fan-out
otherCall(call) == IF call = "sitewide" THEN "seo" ELSE "sitewide"

\* generateSitewideAudit or generateSeoAnalysis resolves (lines 340-368): Promise.all
\* resolves once both have; a call that settles after Promise.all rejected is ignored
fanoutCallResolves(r, call) ==
    /\ runs[r][call] = "pending"
    /\ cancelCalls' = 0
    /\ UNCHANGED quotaExceeded
    /\ written' = IF runs[r].pc = "fanout" /\ runs[r][otherCall(call)] = "fulfilled"
                  THEN {"sitewideAnalysis", "seoAnalysis"} ELSE {}
    /\ IF runs[r].pc = "fanout" /\ runs[r][otherCall(call)] = "fulfilled"
       THEN /\ fanoutJoined(r)
            /\ runs' = [runs EXCEPT ![r][call] = "fulfilled", ![r].pc = "cacheSet",
                                    ![r].args = <<runs[r].data.url, runs[r].urls,
                                                  Fresh(r), Fresh(r)>>]
       ELSE /\ runs' = [runs EXCEPT ![r][call] = "fulfilled"]
            /\ UNCHANGED <<error, appState, pipelineStages, activityLog, partialResults>>
    /\ UNCHANGED <<analysisHistory, selectedAnalysisId, aiConfig, isCancelling,
                   abortControllerRef, aborted, storedHistory, now>>

\* generateSitewideAudit or generateSeoAnalysis rejects: Promise.all rejects with the
\* first rejection, and the catch block runs
fanoutCallRejects(r, call, e) ==
    /\ runs[r][call] = "pending"
    /\ cancelCalls' = 0
    /\ UNCHANGED quotaExceeded
    /\ written' = {}
    /\ IF runs[r].pc = "fanout"
       THEN catch([runs EXCEPT ![r][call] = "rejected"], r, e,
                  Store(pipelineStages, activityLog, partialResults))
       ELSE /\ runs' = [runs EXCEPT ![r][call] = "rejected"]
            /\ UNCHANGED <<error, appState, pipelineStages, activityLog, partialResults>>
    /\ UNCHANGED <<analysisHistory, selectedAnalysisId, aiConfig, isCancelling,
                   abortControllerRef, aborted, storedHistory, now>>

\* cacheService.setAnalysis resolves: lines 385-392, up to the action-plan call
setAnalysisResolves(r) ==
    /\ runs[r].pc = "cacheSet"
    /\ cancelCalls' = 0
    /\ UNCHANGED quotaExceeded
    /\ written' = {}
    /\ activityLog' = addLog(activityLog, "Generating implementation roadmap...",
                             "ai", "actionplan")
    /\ pipelineStages' = updateStage(pipelineStages, "actionplan",
                            [status |-> "running", startTime |-> now,
                             currentTask |-> "Creating daily action items..."])
    /\ runs' = [runs EXCEPT ![r].pc = "plan", ![r].args = <<Fresh(r), Fresh(r)>>]
    /\ UNCHANGED <<error, analysisHistory, selectedAnalysisId, appState, partialResults,
                   aiConfig, isCancelling, abortControllerRef, aborted, storedHistory, now>>

\* what createActionPlan resolves with
ActionPlanOf(r) == [by |-> r, completed |-> FALSE]

\* createActionPlan resolves: lines 397-408 (cache miss) and 287-294 (cache hit)
createActionPlanResolves(r) ==
    /\ runs[r].pc \in {"plan", "hitPlan"}
    /\ cancelCalls' = 0
    /\ UNCHANGED quotaExceeded
    /\ written' = {"actionPlan"}
    /\ LET hit == runs[r].pc = "hitPlan"
           stages1 == updateStage(pipelineStages, "actionplan",
                          [status |-> "complete", progress |-> 100, endTime |-> now])
           log1 == addLog(activityLog,
                          IF hit THEN "Action plan generated"
                                 ELSE "Action plan generated successfully",
                          "success", "actionplan")
       IN  /\ partialResults' = Spread(partialResults, [actionPlan |-> ActionPlanOf(r)])
           /\ activityLog' = addLog(log1, "Synthesizing executive summary...", "ai", "summary")
           /\ pipelineStages' =
                 updateStage(stages1, "summary",
                             [status |-> "running", startTime |-> now,
                              currentTask |-> IF hit THEN "Creating 80/20 analysis..."
                                                     ELSE "Generating 80/20 analysis..."])
           /\ runs' = [runs EXCEPT ![r].pc = IF hit THEN "hitSummary" ELSE "summary",
                                   ![r].args = IF hit THEN <<Cached, Cached>>
                                               ELSE <<Fresh(r), Fresh(r)>>]
    /\ UNCHANGED <<error, analysisHistory, selectedAnalysisId, appState, aiConfig,
                   isCancelling, abortControllerRef, aborted, storedHistory, now>>

\* the HistoricalAnalysis a run builds (lines 416-428 and 300-312)
newAnalysis(r, hit) ==
    [id |-> toISOString(now),
     sitemapUrl |-> runs[r].data.url,
     sitewideAnalysis |-> IF hit THEN Cached ELSE Fresh(r),
     analysis |-> IF hit THEN Cached ELSE Fresh(r),
     actionPlan |-> ActionPlanOf(r),
     executiveSummary |-> Fresh(r)]

\* a record step that loses the new record
updatedHistoryWithoutEntry(r, entry) ==
    Slice(runs[r].analysisHistory, HISTORY_LIMIT)

\* [newAnalysis, ...analysisHistory].slice(0, 10), analysisHistory being the value
\* the closure of handleSubmit holds (lines 430 and 314)
updatedHistory(r, entry) ==
    Slice(<<entry>> \o runs[r].analysisHistory, HISTORY_LIMIT)

\* generateExecutiveSummary resolves: lines 410-435 (cache miss) and 296-319 (cache
\* hit); the results view then renders, and calls handleNewAnalysis when there is
\* no AI configuration (lines 506-521)
generateExecutiveSummaryResolves(r) ==
    /\ runs[r].pc \in {"summary", "hitSummary"}
    /\ cancelCalls' = 0
    /\ UNCHANGED quotaExceeded
    /\ written' = {"executiveSummary"}
    /\ LET hit == runs[r].pc = "hitSummary"
           stages1 == updateStage(pipelineStages, "summary",
                          [status |-> "complete", progress |-> 100, endTime |-> now])
           log1 == addLog(activityLog, "Executive summary complete", "success", "summary")
           log2 == IF hit THEN log1
                   ELSE addLog(log1, "Analysis complete! Building final report...",
                               "success", Undefined)
           results == Spread(partialResults, [executiveSummary |-> Fresh(r)])
           entry == newAnalysis(r, hit)
           history == updatedHistory(r, entry)
           reset == resetPipeline(Store(stages1, log2, results))
       IN  /\ analysisHistory' = history
           /\ storedHistory' = setItem(storedHistory, history)
           /\ IF aiConfig # Null
              THEN /\ pipelineStages' = stages1
                   /\ activityLog' = log2
                   /\ partialResults' = results
                   /\ selectedAnalysisId' = entry.id
                   /\ appState' = "results"
                   /\ UNCHANGED error
              ELSE /\ pipelineStages' = reset.pipelineStages
                   /\ activityLog' = reset.activityLog
                   /\ partialResults' = reset.partialResults
                   /\ selectedAnalysisId' = NoId
                   /\ appState' = "configure_ai"
                   /\ error' = Null
    /\ runs' = [runs EXCEPT ![r] = Returned(@, "succeeded")]
    /\ UNCHANGED <<aiConfig, isCancelling, abortControllerRef, aborted, now>>

\* crawlSitemap, getAnalysis, setAnalysis, createActionPlan or
\* generateExecutiveSummary rejects with e: the catch block runs
collaboratorRejects(r, e) ==
    /\ runs[r].pc \in AwaitPoints \ {"fanout"}
    /\ cancelCalls' = 0
    /\ UNCHANGED quotaExceeded
    /\ written' = {}
    /\ catch(runs, r, e, Store(pipelineStages, activityLog, partialResults))
    /\ UNCHANGED <<analysisHistory, selectedAnalysisId, aiConfig, isCancelling,
                   abortControllerRef, aborted, storedHistory, now>>

-----------------------------------------------------------------------------
(* Specifications *)

\* the steps of the calls of handleSubmit, the collaborators rejecting with one of
\* rejections
RunStep(r, rejections) ==
    \/ \E size \in CrawlSizes : crawlSitemapResolves(r, size)
    \/ \E hit \in BOOLEAN : getAnalysisResolves(r, hit)
    \/ \E call \in {"sitewide", "seo"} : fanoutCallResolves(r, call)
    \/ \E call \in {"sitewide", "seo"}, e \in rejections : fanoutCallRejects(r, call, e)
    \/ setAnalysisResolves(r)
    \/ createActionPlanResolves(r)
    \/ generateExecutiveSummaryResolves(r)
    \/ \E e \in rejections : collaboratorRejects(r, e)

\* an AI configuration is stored and no history is
Init == Mount(MaxRuns, {"config"}, {<<>>})

\* no call of handleSubmit is at an await
NoCallInFlight == \A r \in DOMAIN runs : ~ InFlight(r)

\* the user submits, cancels and starts over; a call can be made while an earlier
\* one is still at an await
Next ==
    \/ Tick
    \/ CancelClick
    \/ NewAnalysisClick
    \/ \E r \in DOMAIN runs, data \in SubmitInputs : SubmitClick(r, data)
    \/ \E r \in DOMAIN runs : RunStep(r, Errors)

Spec == Init /\ [][Next]_vars

\* the same user, who submits only when no call is at an await
NextSeq ==
    \/ Tick
    \/ CancelClick
    \/ NewAnalysisClick
    \/ \E r \in DOMAIN runs, data \in SubmitInputs : NoCallInFlight /\ SubmitClick(r, data)
    \/ \E r \in DOMAIN runs : RunStep(r, Rejections)

SpecSeq == Init /\ [][NextSeq]_vars

\* handleCancelAnalysis called in any state, as a caller of the handler can
NextApi ==
    \/ NextSeq
    \/ handleCancelAnalysis

SpecApi == Init /\ [][NextApi]_vars

\* every handler the rendered view offers
UserStep ==
    \/ NewAnalysisClick
    \/ CancelClick
    \/ handleAiConfigChange
    \/ handleAiSettingsChange
    \/ \E i \in DOMAIN analysisHistory : onSelect(analysisHistory[i].id)
    \/ onClear
    \/ handleToggleTaskComplete

\* the user does whatever the view offers, also while a call is at an await
NextUser ==
    \/ Tick
    \/ UserStep
    \/ \E r \in DOMAIN runs, data \in AllSubmitInputs : SubmitClick(r, data)
    \/ \E r \in DOMAIN runs : RunStep(r, Errors)

SpecUser == Mount(UserRuns, StoredConfigs, StoredHistories) /\ [][NextUser]_vars

\* the handlers called in any state, as a caller of them can, one call of
\* handleSubmit at a time; the clock stands still
NextCall ==
    \/ handleNewAnalysis
    \/ handleCancelAnalysis
    \/ handleAiConfigChange
    \/ handleAiSettingsChange
    \/ \E i \in DOMAIN analysisHistory : onSelect(analysisHistory[i].id)
    \/ onClear
    \/ handleToggleTaskComplete
    \/ \E r \in DOMAIN runs, data \in AllSubmitInputs : NoCallInFlight /\ handleSubmit(r, data)
    \/ \E r \in DOMAIN runs : RunStep(r, Errors)

SpecCall == Mount(CallRuns, StoredConfigs, StoredHistories) /\ [][NextCall]_vars

\* runs made one after another, and tasks toggled, while the storage fills up and
\* empties; the clock stands still
NextStore ==
    \/ StorageChanges
    \/ NewAnalysisClick
    \/ handleToggleTaskComplete
    \/ \E r \in DOMAIN runs, data \in SubmitInputs : NoCallInFlight /\ SubmitClick(r, data)
    \/ \E r \in DOMAIN runs : RunStep(r, Errors)

SpecStore == Mount(StoreRuns, {"config"}, StoredHistories) /\ [][NextStore]_vars

\* a crawl that reports progress, the frames running when the browser gets to them;
\* the clock stands still
NextCrawl ==
    \/ CancelClick
    \/ NewAnalysisClick
    \/ \E r \in DOMAIN runs, data \in SubmitInputs : NoCallInFlight /\ SubmitClick(r, data)
    \/ \E r \in DOMAIN runs, progress \in ProgressSignals : crawlSitemapProgress(r, progress)
    \/ \E r \in DOMAIN runs : animationFrame(r)
    \/ \E r \in DOMAIN runs : RunStep(r, Errors)

SpecCrawl == Mount(UserRuns, {"config"}, {<<>>}) /\ [][NextCrawl]_vars

\* runs made one after another, to the end or cancelled; the clock stands still
NextRestart ==
    \/ CancelClick
    \/ NewAnalysisClick
    \/ \E r \in DOMAIN runs, data \in SubmitInputs : NoCallInFlight /\ SubmitClick(r, data)
    \/ \E r \in DOMAIN runs : RunStep(r, Errors)

SpecRestart == Mount(RestartRuns, {"config"}, {<<>>}) /\ [][NextRestart]_vars

\* runs whose crawl finds about as many URLs as the analysis takes
NextRank ==
    \/ NewAnalysisClick
    \/ \E r \in DOMAIN runs, data \in SubmitInputs : NoCallInFlight /\ SubmitClick(r, data)
    \/ \E r \in DOMAIN runs, size \in RankSizes : crawlSitemapResolves(r, size)
    \/ \E r \in DOMAIN runs : RunStep(r, Errors)

SpecRank == Mount(UserRuns, {"config"}, {<<>>}) /\ [][NextRank]_vars

\* a run whose AI collaborators report progress, cancelled or not
NextProgress ==
    \/ CancelClick
    \/ \E r \in DOMAIN runs, data \in SubmitInputs : NoCallInFlight /\ SubmitClick(r, data)
    \/ \E r \in DOMAIN runs, message \in ProgressMessages : sitewideAuditProgress(r, message)
    \/ \E r \in DOMAIN runs, message \in ProgressMessages : seoAnalysisProgress(r, message)
    \/ \E r \in DOMAIN runs, message \in ProgressMessages : createActionPlanProgress(r, message)
    \/ \E r \in DOMAIN runs : RunStep(r, Errors)

SpecProgress == Mount(UserRuns, {"config"}, {<<>>}) /\ [][NextProgress]_vars

\* no cancellation, and every collaborator call settles: a call of handleSubmit at
\* an await is resumed
NextLive ==
    \/ NewAnalysisClick
    \/ \E r \in DOMAIN runs, data \in SubmitInputs : NoCallInFlight /\ SubmitClick(r, data)
    \/ \E r \in DOMAIN runs : RunStep(r, Rejections)

SpecLive ==
    /\ Mount(LiveRuns, {"config"}, {<<>>})
    /\ [][NextLive]_vars
    /\ \A r \in 1 .. LiveRuns : WF_vars(RunStep(r, Rejections))

\* the same target submitted SeqRuns times, one after another, every call
\* succeeding: the first misses the cache, the later ones hit it
NextHist ==
    \/ Tick
    \/ NewAnalysisClick
    \/ \E r \in DOMAIN runs :
        \/ NoCallInFlight
           /\ SubmitClick(r, [sitemapUrl |-> "https://example.com/sitemap.xml",
                               url |-> "https://example.com"])
        \/ crawlSitemapResolves(r, 3)
        \/ getAnalysisResolves(r, r > 1)
        \/ \E call \in {"sitewide", "seo"} : fanoutCallResolves(r, call)
        \/ setAnalysisResolves(r)
        \/ createActionPlanResolves(r)
        \/ generateExecutiveSummaryResolves(r)

SpecHist == Mount(SeqRuns, {"config"}, {<<>>}) /\ [][NextHist]_vars

-----------------------------------------------------------------------------
(* Properties *)

\* the call r of handleSubmit takes a step: it is made, or a call it awaits settles
CallActs(r) == runs'[r] # runs[r]

\* the call r returns with a history record emitted
Finalizes(r) ==
    /\ runs[r].pc \in {"summary", "hitSummary"}
    /\ runs'[r].pc = "succeeded"

\* handleCancelAnalysis runs
Cancels == cancelCalls' = cancelCalls + 1

Status(stages, stageId) == Stage(stages, stageId).status

\* C1: stale-result rejection. Once the controller of a run has been aborted by a
\* cancellation, no step of that run -- a collaborator call of it resolving or
\* rejecting -- writes to the pipeline stages, the activity log or the partial
\* results, whether the store is the reset one or that of a later run.
C1_StaleResultRejected ==
    [][\A r \in DOMAIN runs :
          aborted[r] /\ CallActs(r) =>
              UNCHANGED <<pipelineStages, activityLog, partialResults>>]_vars

\* C2: a cancelled run's result is discarded. A step of a run whose controller has
\* been aborted appends no history record, in memory or persisted, sets no
\* run-level error and does not take the app state from idle to results or error.
C2_CancelledResultDiscarded ==
    [][\A r \in DOMAIN runs :
          aborted[r] /\ CallActs(r) =>
              /\ analysisHistory' = analysisHistory
              /\ storedHistory' = storedHistory
              /\ error' = error
              /\ ~ (appState = "idle" /\ appState' \in {"results", "error"})]_vars

\* C3: fan-out join. Whenever actionplan is marked running, competitor, technical
\* and content have each run and left the running state -- they are complete, with
\* an endTime -- and the startTime of actionplan is at least each of these endTimes.
C3_FanoutJoin ==
    [][(Status(pipelineStages, "actionplan") # "running"
        /\ Status(pipelineStages', "actionplan") = "running") =>
          \A id \in {"competitor", "technical", "content"} :
              /\ Status(pipelineStages', id) = "complete"
              /\ "endTime" \in DOMAIN Stage(pipelineStages', id)
              /\ Stage(pipelineStages', id).endTime
                    <= Stage(pipelineStages', "actionplan").startTime]_vars

\* a collaborator call the run r awaits rejects with e
CollaboratorFails(r, e) ==
    \/ collaboratorRejects(r, e)
    \/ \E call \in {"sitewide", "seo"} :
          runs[r].pc = "fanout" /\ fanoutCallRejects(r, call, e)

\* C4: error policy. When a collaborator call a run awaits fails, every stage that is
\* running becomes error, every other stage keeps its status (complete stays
\* complete, pending stays pending, none is marked running), the app state becomes
\* error, the run-level error is the message of the failure, and the call has
\* returned: it takes no further step.
C4_ErrorPolicy ==
    [][\A r \in DOMAIN runs :
          /\ \A e \in Rejections :
                CollaboratorFails(r, e) =>
                    /\ \A i \in DOMAIN pipelineStages :
                          pipelineStages'[i].status =
                              IF pipelineStages[i].status = "running"
                              THEN "error" ELSE pipelineStages[i].status
                    /\ appState' = "error"
                    /\ error' = IF e.isError THEN e.message
                                ELSE "An unexpected error occurred."
                    /\ runs'[r].pc = "failed"
          /\ runs[r].pc = "failed" => runs'[r].pc = "failed"]_vars

\* a run failed in the fan-out: stages complete, in error and pending side by side
C4_Witness ==
    /\ appState = "error"
    /\ error = "Request failed"
    /\ \E r \in DOMAIN runs : runs[r].pc = "failed"
    /\ Status(pipelineStages, "rank") = "complete"
    /\ Status(pipelineStages, "technical") = "error"
    /\ Status(pipelineStages, "actionplan") = "pending"

\* the stages that are complete are the first ones of the catalog, and they
\* completed in the order of the catalog
CompletedInOrder(stages) ==
    \A i, j \in DOMAIN stages :
        i < j /\ stages[j].status = "complete" =>
            /\ stages[i].status = "complete"
            /\ stages[i].endTime <= stages[j].endTime

\* C5: on a cache-miss run that is not cancelled and whose collaborators all resolve,
\* the stages complete in the order crawl, rank, competitor, technical, content,
\* actionplan, summary -- after every step of the run the complete stages are the
\* first ones of the catalog, with endTimes that do not decrease -- and when the
\* summary resolves all seven stages are complete and the app state is results.
C5_MissRunCompletesInOrder ==
    [][\A r \in DOMAIN runs :
          /\ ~ aborted[r]
          /\ CallActs(r)
          /\ \/ runs'[r].pc \in {"crawl", "cacheGet", "fanout", "cacheSet", "plan", "summary"}
             \/ runs[r].pc = "summary" /\ runs'[r].pc = "succeeded"
          => /\ CompletedInOrder(pipelineStages')
             /\ runs'[r].pc = "succeeded" =>
                   /\ \A i \in DOMAIN pipelineStages' :
                         pipelineStages'[i].status = "complete"
                   /\ appState' = "results"]_vars

\* a cache-miss run has succeeded uncancelled, the clock having advanced meanwhile
C5_Witness ==
    /\ appState = "results"
    /\ \E r \in DOMAIN runs :
          /\ runs[r].pc = "succeeded"
          /\ ~ aborted[r]
          /\ Len(analysisHistory) > 0
          /\ analysisHistory[1].analysis = Fresh(r)
    /\ \A i \in DOMAIN pipelineStages : pipelineStages[i].status = "complete"
    /\ Stage(pipelineStages, "crawl").endTime < Stage(pipelineStages, "summary").endTime

\* C6: the record a successful run emits, on a cache hit or a cache miss, carries in
\* sitemapUrl the sitemap URL that was submitted to the run and validated.
C6_RecordCarriesSitemapUrl ==
    [][\A r \in DOMAIN runs :
          Finalizes(r) => analysisHistory'[1].sitemapUrl = runs[r].data.sitemapUrl]_vars

\* the calls that have succeeded
Succeeded == {r \in DOMAIN runs : runs[r].pc = "succeeded"}

\* C7: history bound. The history list has at most 10 records, in memory and as
\* persisted; when n runs submitted one after another have succeeded and none is
\* in flight, the two lists are the same, of min(n, 10) records: the most recently
\* submitted runs, the most recent first.
C7_HistoryBound ==
    /\ Len(analysisHistory) <= 10
    /\ Len(storedHistory) <= 10
    /\ NoCallInFlight =>
          LET n == Cardinality(Succeeded)
          IN  /\ storedHistory = analysisHistory
              /\ Len(analysisHistory) = IF n < 10 THEN n ELSE 10
              /\ \A i \in DOMAIN analysisHistory :
                    analysisHistory[i].executiveSummary = Fresh(n + 1 - i)

\* eleven runs have succeeded one after another: the list holds the last ten
C7_Witness ==
    /\ NoCallInFlight
    /\ Cardinality(Succeeded) = 11
    /\ Len(analysisHistory) = 10
    /\ analysisHistory[1].executiveSummary = Fresh(11)
    /\ analysisHistory[10].executiveSummary = Fresh(2)

\* C8: when a run finalizes successfully the history list becomes the new record
\* prepended to the list as it is at that moment, truncated to 10, and is persisted
\* so: what was cleared, updated or recorded since the run was submitted is kept.
C8_RecordPrependsToCurrentHistory ==
    [][\A r \in DOMAIN runs :
          Finalizes(r) =>
              /\ analysisHistory' =
                    Slice(<<newAnalysis(r, runs[r].pc = "hitSummary")>> \o analysisHistory, 10)
              /\ storedHistory' = analysisHistory']_vars

\* all seven stages pending with progress 0, the log and the partial results empty,
\* the app state idle
ResetAndIdle(stages, log, results, state) ==
    /\ \A i \in DOMAIN stages : stages[i].status = "pending" /\ stages[i].progress = 0
    /\ log = <<>>
    /\ results = EmptyResults
    /\ state = "idle"

\* C9: cancellation idempotence. With a run in flight, handleCancelAnalysis leaves
\* all seven stages pending with progress 0, the log empty, the partial results
\* empty and the app state idle; a call that follows another immediately changes
\* nothing.
C9_CancelIdempotent ==
    [][Cancels /\ (\E r \in DOMAIN runs : InFlight(r)) =>
          /\ ResetAndIdle(pipelineStages', activityLog', partialResults', appState')
          /\ cancelCalls >= 1 =>
                UNCHANGED <<error, analysisHistory, selectedAnalysisId, appState,
                            pipelineStages, activityLog, partialResults, aiConfig,
                            isCancelling, abortControllerRef, aborted, storedHistory,
                            now, runs>>]_vars

\* handleCancelAnalysis has been called twice in succession with a run in flight
C9_Witness ==
    /\ cancelCalls = 2
    /\ \E r \in DOMAIN runs : InFlight(r) /\ aborted[r]
    /\ ResetAndIdle(pipelineStages, activityLog, partialResults, appState)

\* C10 as stated: when handleCancelAnalysis runs while technical is running,
\* competitor, technical and content are in error afterwards and the log holds a
\* warning entry.
C10_CancelLeavesErrorsAndWarning ==
    [][Cancels /\ Status(pipelineStages, "technical") = "running" =>
          /\ \A id \in {"competitor", "technical", "content"} :
                Status(pipelineStages', id) = "error"
          /\ \E i \in DOMAIN activityLog' : activityLog'[i].type = "warning"]_vars

\* C10: when handleCancelAnalysis runs while technical is running, the error marks
\* and the warning entry are discarded by the reset of the same handler: afterwards
\* all seven stages are pending, none in error, and the log is empty; and every run
\* that starts has crawl running, the other six stages pending with progress 0, and
\* a log of its first entry only.
C10_CancelResetsAndNextRunStartsClean ==
    [][/\ Cancels /\ Status(pipelineStages, "technical") = "running" =>
             /\ \A i \in DOMAIN pipelineStages' :
                   pipelineStages'[i].status = "pending" /\ pipelineStages'[i].progress = 0
             /\ activityLog' = <<>>
       /\ \A r \in DOMAIN runs :
             runs[r].pc = "none" /\ runs'[r].pc = "crawl" =>
                 /\ \A i \in DOMAIN pipelineStages' :
                       /\ pipelineStages'[i].status =
                             IF pipelineStages'[i].id = "crawl" THEN "running" ELSE "pending"
                       /\ pipelineStages'[i].progress = 0
                 /\ Len(activityLog') = 1
                 /\ activityLog'[1].type = "info"]_vars

\* the fan-out of a run was in flight when handleCancelAnalysis ran
C10_Witness ==
    /\ cancelCalls = 1
    /\ \E r \in DOMAIN runs : runs[r].pc = "fanout" /\ aborted[r]
    /\ Status(pipelineStages, "technical") = "pending"
    /\ activityLog = <<>>

\* C11: when crawlSitemap resolves with no URL, the run returns through the catch
\* block: the app state is error, the run-level error is the message of the
\* empty-result Error, crawl is complete and every other stage is pending, and the
\* call has returned without querying the cache or calling the ranker or an
\* analyzer; stages stay so while that error is shown.
C11_EmptyCrawl ==
    [][/\ \A r \in DOMAIN runs :
             runs[r].pc = "crawl" /\ crawlSitemapResolves(r, 0) =>
                 /\ appState' = "error"
                 /\ error' = NoUrlsFound.message
                 /\ runs'[r].pc = "failed"
                 /\ runs'[r].sitewide = "none" /\ runs'[r].seo = "none"
       /\ appState' = "error" /\ error' = NoUrlsFound.message =>
             \A i \in DOMAIN pipelineStages' :
                 pipelineStages'[i].status =
                     IF pipelineStages'[i].id = "crawl" THEN "complete" ELSE "pending"]_vars

\* a run has ended on an empty crawl
C11_Witness ==
    /\ appState = "error"
    /\ error = NoUrlsFound.message
    /\ \E r \in DOMAIN runs : runs[r].pc = "failed"
    /\ Status(pipelineStages, "crawl") = "complete"
    /\ Status(pipelineStages, "rank") = "pending"
    /\ partialResults = [urlsDiscovered |-> 0]

\* strings that are no well-formed URL: there is no scheme
NotWellFormed == {"example.com/sitemap.xml"}

\* C12: a call of handleSubmit with an empty sitemap URL, with no AI configuration
\* or with a sitemap URL that does not parse returns at once: it sets the error
\* message of its case and the app state (configure_ai when the configuration is
\* missing, error otherwise) and leaves the stages, the log, the partial results,
\* the history in memory and persisted, the AbortController and its signal
\* unchanged; no call is left at an await.
C12_ValidationFailsFast ==
    [][\A r \in DOMAIN runs, data \in AllSubmitInputs :
          /\ handleSubmit(r, data)
          /\ data.sitemapUrl = "" \/ aiConfig = Null \/ data.sitemapUrl \in NotWellFormed
          => /\ error' = IF data.sitemapUrl = "" THEN "Please enter your sitemap.xml URL."
                         ELSE IF aiConfig = Null THEN "AI Provider is not configured."
                         ELSE "Please enter a valid sitemap URL (e.g., https://example.com/sitemap.xml)."
             /\ appState' = IF data.sitemapUrl # "" /\ aiConfig = Null
                            THEN "configure_ai" ELSE "error"
             /\ UNCHANGED <<pipelineStages, activityLog, partialResults, analysisHistory,
                            storedHistory, abortControllerRef, aborted, runs>>
             /\ \A i \in DOMAIN pipelineStages' : pipelineStages'[i].status # "running"]_vars

\* handleSubmit was called with no AI configuration and has returned
C12_Witness ==
    /\ error = "AI Provider is not configured."
    /\ appState = "configure_ai"
    /\ aiConfig = Null
    /\ NoCallInFlight
    /\ abortControllerRef = NoController

\* C13: on a cache hit, in the step in which the cache read resolves, rank,
\* competitor, technical and content are marked complete at the time of that step,
\* with an elapsed duration of zero; from there the run awaits the action plan and
\* then the executive summary only, each given the cached sitewide and page
\* results; neither analyzer is called, the ranker's count of analyzed URLs is not
\* set, and the cache is not written.
C13_CacheHitSkipsAnalysis ==
    [][\A r \in DOMAIN runs :
          /\ runs[r].pc = "cacheGet" /\ runs'[r].pc = "hitPlan" =>
                \A id \in {"rank", "competitor", "technical", "content"} :
                    /\ Status(pipelineStages', id) = "complete"
                    /\ Stage(pipelineStages', id).endTime = now
                    /\ elapsedTime(Stage(pipelineStages', id)) = 0
          /\ runs'[r].pc \in {"hitPlan", "hitSummary"} /\ CallActs(r) =>
                /\ runs'[r].args = <<Cached, Cached>>
                /\ runs'[r].sitewide = "none" /\ runs'[r].seo = "none"
                /\ "urlsAnalyzed" \notin written'
          /\ runs[r].pc = "hitPlan" =>
                runs'[r].pc \in {"hitPlan", "hitSummary", "failed"}
          /\ runs[r].pc = "hitSummary" =>
                runs'[r].pc \in {"hitSummary", "succeeded", "failed"}]_vars

\* a run that hit the cache awaits the executive summary
C13_Witness ==
    /\ \E r \in DOMAIN runs : runs[r].pc = "hitSummary" /\ ~ aborted[r]
    /\ \A id \in {"rank", "competitor", "technical", "content"} :
          Status(pipelineStages, id) = "complete"
    /\ "sitewideAnalysis" \in DOMAIN partialResults
    /\ partialResults.sitewideAnalysis = Cached
    /\ "urlsAnalyzed" \notin DOMAIN partialResults

\* C14: the cache write is best-effort. When cacheService.setAnalysis rejects after
\* the fan-out has joined, the run does not fail: no run-level error is set, the
\* app state does not become error, no stage is marked error, and the run goes on
\* to the action plan, which is marked running.
C14_CacheWriteBestEffort ==
    [][\A r \in DOMAIN runs, e \in Rejections :
          runs[r].pc = "cacheSet" /\ collaboratorRejects(r, e) =>
              /\ runs'[r].pc = "plan"
              /\ error' = error
              /\ appState' # "error"
              /\ \A i \in DOMAIN pipelineStages' : pipelineStages'[i].status # "error"
              /\ Status(pipelineStages', "actionplan") = "running"]_vars

\* C15: when localStorage.setItem throws, the failure stays inside the write. A run
\* whose summary resolves then still ends in results, with its record first in the
\* in-memory history, no run-level error set and no stage in error; a task toggle
\* still updates the in-memory record and changes neither the app state, the error
\* nor the stages; the storage keeps what it held.
C15_PersistenceFailureSwallowed ==
    [][quotaExceeded =>
          /\ \A r \in DOMAIN runs :
                Finalizes(r) =>
                    /\ appState' = "results"
                    /\ error' = error
                    /\ Len(analysisHistory') > 0
                    /\ analysisHistory'[1] = newAnalysis(r, runs[r].pc = "hitSummary")
                    /\ selectedAnalysisId' = analysisHistory'[1].id
                    /\ \A i \in DOMAIN pipelineStages' : pipelineStages'[i].status = "complete"
                    /\ storedHistory' = storedHistory
          /\ handleToggleTaskComplete =>
                /\ analysisHistory'[analysisToDisplay].actionPlan.completed
                      = ~ analysisHistory[analysisToDisplay].actionPlan.completed
                /\ storedHistory' = storedHistory
                /\ UNCHANGED <<appState, error, pipelineStages>>]_vars

\* a run has succeeded and a task was toggled while the storage was full: the
\* history in memory is ahead of the persisted one
C15_Witness ==
    /\ quotaExceeded
    /\ appState = "results"
    /\ \E r \in DOMAIN runs : runs[r].pc = "succeeded"
    /\ Len(analysisHistory) > Len(storedHistory)
    /\ analysisHistory[1].actionPlan.completed

\* C16: stage timestamp invariant. In every state and for every stage, a running
\* stage has a startTime, and a stage that is complete or in error has an endTime
\* and a startTime with endTime >= startTime.
C16_StageTimestamps ==
    \A i \in DOMAIN pipelineStages :
        LET stage == pipelineStages[i]
        IN  /\ stage.status = "running" => "startTime" \in DOMAIN stage
            /\ stage.status \in {"complete", "error"} =>
                  /\ "endTime" \in DOMAIN stage
                  /\ "startTime" \in DOMAIN stage
                  /\ stage.endTime >= stage.startTime

\* C17: the progress of a stage does not decrease while the stage is running: a
\* step that leaves a stage running leaves it with at least the progress it had,
\* whatever progress signals the crawler sends.
C17_ProgressMonotonic ==
    [][\A i \in DOMAIN pipelineStages :
          pipelineStages[i].status = "running" /\ pipelineStages'[i].status = "running" =>
              pipelineStages'[i].progress >= pipelineStages[i].progress]_vars

\* C18: progress adapter. When the frame of a progress signal (count, total) runs
\* while the call awaits the crawl, with total > 0 the progress of crawl becomes 100 * count / total and
\* itemsProcessed and totalItems become count and total; with total 0 the progress
\* of crawl stays what it was.
C18_ProgressAdapter ==
    [][\A r \in DOMAIN runs :
          animationFrame(r) /\ runs[r].pc = "crawl" =>
              LET progress == Head(runs[r].frames)
                  before == Stage(pipelineStages, "crawl")
                  after == Stage(pipelineStages', "crawl")
              IN  IF progress.total > 0
                  THEN /\ after.progress * progress.total = 100 * progress.count
                       /\ after.itemsProcessed = progress.count
                       /\ after.totalItems = progress.total
                  ELSE after.progress = before.progress]_vars

\* C19: partial results. A step that starts a run leaves every field of the
\* partial results unset, and a step of a run writes no field that is already set:
\* each field is written at most once in a run, on the cache-hit path as on the
\* cache-miss path.
C19_PartialResultsWrittenOnce ==
    [][/\ \A r \in DOMAIN runs :
             runs[r].pc # "crawl" /\ runs'[r].pc = "crawl" => partialResults' = EmptyResults
       /\ \A field \in written' : field \notin DOMAIN partialResults]_vars

\* s is t or the beginning of t
IsPrefix(s, t) == Len(s) <= Len(t) /\ SubSeq(t, 1, Len(s)) = s

\* a step that resets the store: a run starts, a cancellation, or handleNewAnalysis
\* runs -- from its buttons, from onClear, or from the results view that finds no
\* configuration when a run has emitted its record
ResetStep ==
    \/ \E r \in DOMAIN runs : runs[r].pc # "crawl" /\ runs'[r].pc = "crawl"
    \/ Cancels
    \/ handleNewAnalysis
    \/ onClear
    \/ \E r \in DOMAIN runs : Finalizes(r) /\ aiConfig = Null

\* C20: the activity log is append-only. Every step other than a reset leaves the
\* log it found as the beginning of the log it leaves, entries in arrival order
\* and unchanged; so the log becomes empty only through a reset (run start,
\* cancellation, new-analysis).
C20_LogAppendOnly ==
    [][IsPrefix(activityLog, activityLog') \/ ResetStep]_vars

\* a call waits for the executive summary with the entries of every stage in the log
C20_Witness ==
    \E r \in DOMAIN runs :
        /\ runs[r].pc = "summary"
        /\ Len(activityLog) >= 5
        /\ \A stageId \in {"crawl", "technical", "actionplan"} :
              \E i \in DOMAIN activityLog : activityLog[i].stage = stageId

\* C21: handleCancelAnalysis called when no call of handleSubmit is in flight has
\* no effect: the stages, the activity log, the partial results, the history, the
\* run-level error and the app state are what they were, a displayed result or
\* error included.
C21_CancelWithoutRunIsNoOp ==
    [][Cancels /\ (\A r \in DOMAIN runs : ~ InFlight(r)) =>
          UNCHANGED <<pipelineStages, activityLog, partialResults, analysisHistory,
                      error, appState>>]_vars

\* C22: a step in which a call of handleSubmit returns with success, on the
\* cache-miss or the cache-hit path, puts exactly one record in front of the
\* history list as it is, the oldest dropped beyond 10, with an identifier no
\* record of the list has; every other step of a call, a return through the catch
\* block included, leaves the history list as it is.
C22_OneRecordPerSuccess ==
    [][\A r \in DOMAIN runs :
          CallActs(r) =>
              IF Finalizes(r)
              THEN /\ Len(analysisHistory') > 0
                   /\ Tail(analysisHistory') = Slice(analysisHistory, HISTORY_LIMIT - 1)
                   /\ \A i \in DOMAIN analysisHistory :
                         analysisHistory[i].id # analysisHistory'[1].id
              ELSE UNCHANGED analysisHistory]_vars

\* C23: liveness. With no cancellation and every collaborator call settling, a
\* call of handleSubmit that has passed validation returns: the app state is then
\* results or error and no stage is running.
C23_RunsFinalize ==
    \A r \in 1 .. LiveRuns :
        InFlight(r) ~>
            /\ runs[r].pc \in {"succeeded", "failed"}
            /\ appState \in {"results", "error"}
            /\ \A i \in DOMAIN pipelineStages : pipelineStages[i].status # "running"

\* a run has returned through the catch block when its fan-out failed
C23_Witness ==
    \E r \in DOMAIN runs :
        /\ runs[r].pc = "failed"
        /\ appState = "error"
        /\ Status(pipelineStages, "technical") = "error"
        /\ Status(pipelineStages, "crawl") = "complete"

\* C24: when handleCancelAnalysis runs while a call of handleSubmit is at an await,
\* the controller it aborts is the controller of that call, and the signal of that
\* controller is among the arguments of the collaborator call awaited.
C24_AbortReachesCallInFlight ==
    [][\A r \in DOMAIN runs :
          Cancels /\ InFlight(r) /\ abortControllerRef = r =>
              /\ aborted'[r]
              /\ signalHanded(r) = r]_vars

\* C25: in every reachable state the progress of every stage lies in 0 .. 100,
\* whatever non-negative count and total the crawler's progress signals carry,
\* count greater than total included.
C25_ProgressInRange ==
    \A i \in DOMAIN pipelineStages :
        pipelineStages[i].progress >= 0 /\ pipelineStages[i].progress <= 100

\* the stages of the fan-out
FanoutStages == {"competitor", "technical", "content"}

\* C26: fan-out atomicity. After every step competitor, technical and content have
\* the same status. A step of a call at the fan-out that completes them is the
\* step in which the second of the sitewide-audit and page-analysis calls is
\* fulfilled, and when the call returns because one of the two failed none of the
\* three is complete.
C26_FanoutAtomic ==
    [][LET before == Status(pipelineStages, "technical")
           after == Status(pipelineStages', "technical")
       IN  /\ Status(pipelineStages', "competitor") = after
           /\ Status(pipelineStages', "content") = after
           /\ \A r \in DOMAIN runs :
                 runs[r].pc = "fanout" /\ CallActs(r) =>
                     /\ before # "complete" /\ after = "complete" =>
                           runs'[r].sitewide = "fulfilled" /\ runs'[r].seo = "fulfilled"
                     /\ "rejected" \in {runs'[r].sitewide, runs'[r].seo} =>
                           runs'[r].pc = "failed" /\ after # "complete"]_vars

\* the sitewide audit was fulfilled, the page analysis failed: the three stages are
\* in error
C26_Witness ==
    \E r \in DOMAIN runs :
        /\ runs[r].pc = "failed"
        /\ runs[r].sitewide = "fulfilled"
        /\ runs[r].seo = "rejected"
        /\ \A id \in FanoutStages : Status(pipelineStages, id) = "error"

\* the fields of a stage that a run writes
RunFields == {"startTime", "endTime", "currentTask", "itemsProcessed", "totalItems"}

\* C27: the step that starts a run resets the store, however the run before ended:
\* afterwards the six stages after crawl are pending with progress 0 and none of
\* startTime, endTime, currentTask, itemsProcessed and totalItems; crawl is running
\* with progress 0, the startTime and currentTask of this run and no endTime or
\* item counts; the log holds the first entry of this run only, and the partial
\* results are empty.
C27_RunStartResets ==
    [][\A r \in DOMAIN runs :
          runs[r].pc = "none" /\ runs'[r].pc = "crawl" =>
              /\ Len(pipelineStages') = 7
              /\ \A i \in DOMAIN pipelineStages' :
                    LET stage == pipelineStages'[i]
                    IN  /\ stage.progress = 0
                        /\ IF stage.id = "crawl"
                           THEN /\ stage.status = "running"
                                /\ stage.startTime = now'
                                /\ DOMAIN stage \cap RunFields = {"startTime", "currentTask"}
                           ELSE /\ stage.status = "pending"
                                /\ DOMAIN stage \cap RunFields = {}
              /\ Len(activityLog') = 1
              /\ activityLog'[1].stage = "crawl"
              /\ partialResults' = EmptyResults]_vars

\* a second run has started after the first was cancelled and ran on to its end
C27_Witness ==
    \E r1, r2 \in DOMAIN runs :
        /\ aborted[r1]
        /\ runs[r1].pc \in {"succeeded", "failed"}
        /\ runs[r2].pc = "crawl"
        /\ Status(pipelineStages, "crawl") = "running"
        /\ Status(pipelineStages, "summary") = "pending"

\* C28: ranking step. When a run whose crawl found n >= 1 URLs goes from the cache
\* lookup to the fan-out, both analyzer calls are given the first min(100, n) URLs
\* of rankUrls' output, in its order, and urlsAnalyzed is min(100, n).
C28_TopRankedUrls ==
    [][\A r \in DOMAIN runs :
          runs[r].pc = "cacheGet" /\ runs'[r].pc = "fanout" =>
              LET n == runs[r].urls
                  k == IF n < 100 THEN n ELSE 100
                  ranked == rankUrls(urlsFromSitemap(n))
              IN  /\ n >= 1
                  /\ runs'[r].args = <<SubSeq(ranked, 1, k), SubSeq(ranked, 1, k)>>
                  /\ partialResults'.urlsAnalyzed = k]_vars

\* a crawl found 101 URLs and the fan-out is under way on 100 of them, the first
\* URL of the crawl left out
C28_Witness ==
    \E r \in DOMAIN runs :
        /\ runs[r].pc = "fanout"
        /\ runs[r].urls = 101
        /\ partialResults.urlsDiscovered = 101
        /\ partialResults.urlsAnalyzed = 100
        /\ Len(runs[r].args[1]) = 100
        /\ runs[r].args[1][1] = 101
        /\ runs[r].args[1][100] = 2

\* the progress messages that mention a competitor, in whatever case
MentionsCompetitor == {"Competitor gaps"}

\* the step gives message to the stage stageId and to no other: currentTask of that
\* stage is the message and its other fields are as they were, every other stage is
\* as it was, and the log has one more entry, of type ai, for that stage
RoutedTo(stageId, message) ==
    /\ \A i \in DOMAIN pipelineStages :
          IF pipelineStages[i].id = stageId
          THEN /\ pipelineStages'[i].currentTask = message
               /\ \A field \in DOMAIN pipelineStages[i] \ {"currentTask"} :
                     pipelineStages'[i][field] = pipelineStages[i][field]
               /\ DOMAIN pipelineStages'[i] = DOMAIN pipelineStages[i] \cup {"currentTask"}
          ELSE pipelineStages'[i] = pipelineStages[i]
    /\ Len(activityLog') = Len(activityLog) + 1
    /\ SubSeq(activityLog', 1, Len(activityLog)) = activityLog
    /\ LET entry == activityLog'[Len(activityLog')]
       IN  entry.message = message /\ entry.type = "ai" /\ entry.stage = stageId

\* C29: progress routing during the fan-out. A progress message of the sitewide
\* audit that mentions a competitor, in whatever case, goes to competitor and
\* every other one to technical; a progress message of the page analysis goes to
\* content. The stage it goes to gets it as currentTask, no other stage changes, no
\* status or progress changes, and the log gets one entry of type ai for that stage.
C29_ProgressRouting ==
    [][\A r \in DOMAIN runs, message \in ProgressMessages :
          /\ sitewideAuditProgress(r, message) =>
                RoutedTo(IF message \in MentionsCompetitor THEN "competitor" ELSE "technical",
                         message)
          /\ seoAnalysisProgress(r, message) => RoutedTo("content", message)]_vars

\* during a fan-out the sitewide audit has reported on competitors, with a capital,
\* and the page analysis has reported too
C29_Witness ==
    /\ \E r \in DOMAIN runs : runs[r].pc = "fanout"
    /\ \A id \in FanoutStages : Status(pipelineStages, id) = "running"
    /\ Stage(pipelineStages, "competitor").currentTask = "Competitor gaps"
    /\ Stage(pipelineStages, "content").currentTask = "Technical audit"
    /\ messagesLogged = 2

\* updates as the handlers pass them to updateStage
SampleUpdates ==
    { [currentTask |-> "Technical audit"],
      [status |-> "running", startTime |-> now, currentTask |-> "Competitor gaps"],
      [status |-> "complete", progress |-> 100, endTime |-> now],
      [progress |-> 50, itemsProcessed |-> 1, totalItems |-> 2, currentTask |-> "Competition"] }

\* C30: in every reachable state the stage list is the seven stages of the catalog
\* in catalog order, and updateStage(id, updates) applied to it gives a list in
\* which the stage with that id has the fields of updates with their values and its
\* other fields as they were, and every other stage is as it was; with an id no
\* stage has, the list is as it was.
C30_UpdateStageFrame ==
    /\ Len(pipelineStages) = 7
    /\ \A i \in DOMAIN pipelineStages :
          /\ pipelineStages[i].id = PIPELINE_STAGE_DEFINITIONS[i].id
          /\ pipelineStages[i].name = PIPELINE_STAGE_DEFINITIONS[i].name
    /\ \A stageId \in StageIds \cup {"unknown"}, updates \in SampleUpdates :
          LET after == updateStage(pipelineStages, stageId, updates)
          IN  /\ DOMAIN after = DOMAIN pipelineStages
              /\ \A i \in DOMAIN pipelineStages :
                    IF pipelineStages[i].id = stageId
                    THEN /\ DOMAIN after[i] = DOMAIN pipelineStages[i] \cup DOMAIN updates
                         /\ \A field \in DOMAIN updates : after[i][field] = updates[field]
                         /\ \A field \in DOMAIN pipelineStages[i] \ DOMAIN updates :
                               after[i][field] = pipelineStages[i][field]
                    ELSE after[i] = pipelineStages[i]
              /\ stageId = "unknown" => after = pipelineStages

\* updateStage has completed crawl and rank and started the three stages of the
\* fan-out
C30_Witness ==
    /\ \E r \in DOMAIN runs : runs[r].pc = "fanout" /\ ~ aborted[r]
    /\ Status(pipelineStages, "crawl") = "complete"
    /\ Status(pipelineStages, "rank") = "complete"
    /\ \A id \in FanoutStages :
          /\ Status(pipelineStages, id) = "running"
          /\ "currentTask" \in DOMAIN Stage(pipelineStages, id)
    /\ Status(pipelineStages, "actionplan") = "pending"

\* the history after the toggle of a task of the record shown: every record with
\* the id of the record shown has the toggled action plan and its other fields as
\* they were, every other record, the length and the order are as they were; and an
\* id no record has changes nothing
HistoryUpdateMerges ==
    LET shown == analysisHistory[analysisToDisplay]
        newActionPlan == [by |-> shown.actionPlan.by,
                          completed |-> ~ shown.actionPlan.completed]
    IN  /\ Len(analysisHistory') = Len(analysisHistory)
        /\ \A i \in DOMAIN analysisHistory :
              analysisHistory'[i] =
                 IF analysisHistory[i].id = shown.id
                 THEN [analysisHistory[i] EXCEPT !.actionPlan = newActionPlan]
                 ELSE analysisHistory[i]
        /\ updateAnalysisInHistory(analysisHistory, NoId, [actionPlan |-> newActionPlan])
              = analysisHistory

\* C31 as stated: a history update merges the fields into the record with the id
\* given, leaves every other record, the length and the order as they were, changes
\* nothing for an id no record has, and the persisted list is the result.
C31_HistoryUpdatePersists ==
    [][handleToggleTaskComplete =>
          HistoryUpdateMerges /\ storedHistory' = analysisHistory']_vars

\* C31: a history update merges the fields into the record with the id given,
\* leaves every other record, the length and the order as they were, and changes
\* nothing for an id no record has; the persisted list is the result when
\* localStorage takes the write and is what it was when setItem throws.
C31_HistoryUpdateMergesById ==
    [][handleToggleTaskComplete =>
          /\ HistoryUpdateMerges
          /\ storedHistory' = IF quotaExceeded THEN storedHistory ELSE analysisHistory']_vars

\* a task of the newest of two records was toggled and the list persisted
C31_Witness ==
    /\ ~ quotaExceeded
    /\ Len(analysisHistory) >= 2
    /\ analysisHistory[1].id # analysisHistory[2].id
    /\ analysisHistory[1].actionPlan.completed
    /\ ~ analysisHistory[2].actionPlan.completed
    /\ storedHistory = analysisHistory

\* C32: in every reachable state a stage that is complete has progress 100, also
\* when the frame of a crawl progress signal runs after the crawl has resolved.
C32_CompleteMeansFullProgress ==
    \A i \in DOMAIN pipelineStages :
        pipelineStages[i].status = "complete" => pipelineStages[i].progress = 100

\* C33: whenever the app state is not loading -- idle, idle after a cancellation
\* included, results or error -- no stage is running.
C33_RunningOnlyWhileLoading ==
    appState # "loading" =>
        \A i \in DOMAIN pipelineStages : pipelineStages[i].status # "running"

\* C34: once a call of handleSubmit has returned through the catch block because
\* one call of the fan-out failed, a progress message of the other call, and its
\* settling, append no log entry and change no stage and no partial result.
C34_FailedRunStaysAsShown ==
    [][\A r \in DOMAIN runs :
          /\ runs[r].pc = "failed"
          /\ \/ \E message \in ProgressMessages :
                   sitewideAuditProgress(r, message) \/ seoAnalysisProgress(r, message)
             \/ \E call \in {"sitewide", "seo"} :
                   \/ fanoutCallResolves(r, call)
                   \/ \E e \in Errors : fanoutCallRejects(r, call, e)
          => UNCHANGED <<activityLog, pipelineStages, partialResults>>]_vars

====
